---- MODULE Spec2Model ----
(***************************************************************************)
(* Model of main.py: the player thread (ThreadForPlayer), the main window  *)
(* (MainWindow) and the signal connections made in __main__.               *)
(*                                                                         *)
(* Two threads run.  The worker thread executes ThreadForPlayer.run.  The  *)
(* main (GUI) thread executes every slot: the ThreadForPlayer object is    *)
(* created in the main thread and never moved, so its queued slots         *)
(* (play_next_sound, play_sound_by_name) are delivered by the main         *)
(* thread's event loop, and stop_current_queue, connected without a        *)
(* connection type, is called directly from MainWindow.stop.               *)
(*                                                                         *)
(* The window's text log is written and never read by the program; it is   *)
(* not part of the state.                                                  *)
(*                                                                         *)
(* Time is in milliseconds and is observed at the granularity of the       *)
(* worker's polling period; time.time() is taken to be non-decreasing.     *)
(***************************************************************************)
EXTENDS Integers, Sequences, FiniteSets

\* ------------------------------------------------------------- bounds
NumFiles == 2        \* files in the audio directory
NumDevices == 2      \* output devices known to the GUI
MaxPending == 2      \* requests emitted and not yet taken by the worker
MaxPendingSelect == 1 \* the same, in the runs that reselect library and device
MaxTicks == 3        \* polling periods the clock may advance

\* --------------------------------------------------- program constants
None == -1                     \* self._finish_time = None
Guard == 100                   \* + 0.1 after the clip's duration
SleepMs == 100                 \* time.sleep(0.1)
InitialInterval == 100         \* self.timer.setInterval(100)
AUDIO_LIBRARIES == <<"epsound", "pygame">>

TimeStep == SleepMs
MaxTime == MaxTicks * TimeStep

\* File names are denoted by their rank in lexicographic order.
DirFiles == 1..NumFiles
\* A file that is in the directory when the buttons are built (second
\* os.listdir) but was not when the catalog was loaded (first os.listdir).
LateFile == NumFiles + 1
ButtonNames == DirFiles \cup {LateFile}

\* sorted(os.listdir(...)) : the ascending sequence of a finite set of names
RECURSIVE sorted(_)
sorted(S) == IF S = {} THEN <<>>
             ELSE LET m == CHOOSE x \in S : \A y \in S : x <= y
                  IN <<m>> \o sorted(S \ {m})

\* WavFile(...).duration of a clip, in ms
duration(name) == 100 * (((name - 1) % 2) + 1)

\* Devices are denoted by numbers; 0 is the empty string / default device.
EmptyText == 0
audio_devices == [i \in 1..NumDevices |-> i]
DeviceTexts == {EmptyText} \cup (1..NumDevices)

\* platform.system().lower() == "linux": the host is taken to be Linux, where
\* both libraries offer a device choice
linux == TRUE

\* Texts the delay field can hold (the validator admits digits only).
DelayTexts == {<<>>, <<0>>, <<1, 0, 0>>}

\* int(text): defined on non-empty digit strings, raises otherwise
IntRaises(text) == Len(text) = 0
RECURSIVE int(_)
int(text) == IF Len(text) = 0 THEN 0
             ELSE 10 * int(SubSeq(text, 1, Len(text) - 1)) + text[Len(text)]

VARIABLES
    finish_time,       \* ThreadForPlayer._finish_time
    index,             \* ThreadForPlayer._index (0-based cursor)
    queue,             \* ThreadForPlayer._queue
    wav_player_device, \* device bound in ThreadForPlayer._wav_player
    mixer_device,      \* device the pygame mixer was opened on
    wpc,               \* position of the worker thread in run/_play_sound
    cur,               \* the tuple _play_sound took from the queue
    wake,              \* when the worker's time.sleep(0.1) returns
    events,            \* queued signal deliveries pending in the main thread
    timer_active,      \* MainWindow.timer.isActive()
    timer_interval,    \* MainWindow.timer.interval()
    timer_due,         \* next timeout of the armed timer
    widgets_enabled,   \* state set by MainWindow._enable_widgets
    library_index,     \* list_widget_audio_libraries.currentIndex()
    list_index,        \* list_widget_audio_devices.currentIndex() (1-based)
    line_text,         \* line_edit_audio_device.text()
    list_visible,      \* list_widget_audio_devices.isVisible()
    line_visible,      \* line_edit_audio_device.isVisible()
    now,               \* time.time()
    issued,            \* history: timer requests issued so far, modulo the
                       \* catalog size
    sound_names        \* ThreadForPlayer._sound_names

worker_vars == <<finish_time, wav_player_device, wpc, cur, wake>>
sched_vars == <<index, queue>>
timer_vars == <<timer_active, timer_interval, timer_due>>
select_vars == <<library_index, list_index, line_text, list_visible, line_visible>>
vars == <<finish_time, index, queue, wav_player_device, mixer_device, wpc, cur,
          wake, events, timer_active, timer_interval, timer_due, widgets_enabled,
          library_index, list_index, line_text, list_visible, line_visible, now, issued,
          sound_names>>

\* ThreadForPlayer._sounds: __init__ appends to it alongside _sound_names
sounds == [i \in 1..Len(sound_names) |-> duration(sound_names[i])]

NoRequest == [sound |-> 0, name |-> 0, library |-> "", device |-> EmptyText,
              k |-> None,
              used |-> EmptyText, selected |-> EmptyText]

\* ------------------------------------------------------ ThreadForPlayer

Init ==
    /\ finish_time = None
    /\ index = 0
    /\ queue = <<>>
    /\ wav_player_device = EmptyText
    /\ mixer_device = EmptyText
    /\ wpc = "check"
    /\ cur = NoRequest
    /\ wake = None
    /\ events = <<>>
    /\ timer_active = FALSE
    /\ timer_interval = InitialInterval
    /\ timer_due = None
    /\ widgets_enabled = TRUE
    /\ library_index = 0
    /\ list_index = 1
    /\ line_text = EmptyText
    /\ list_visible = FALSE
    /\ line_visible = linux
    /\ now = 0
    /\ issued = 0
    /\ sound_names = sorted(DirFiles)

\* a put that inserts at the head of the queue
put_front(q, item) == <<item>> \o q

\* a get that leaves the item it returns in the queue
get_rest_keeps(q) == q

\* Queue.put / Queue.get / Queue.empty
put(q, item) == Append(q, item)
get_item(q) == Head(q)
get_rest(q) == Tail(q)
empty(q) == q = <<>>

\* a gate that opens at the busy-until time itself
GateOpen_at_finish(t, f) == f = None \/ t >= f

\* run: the second half of the condition that admits a playback
GateOpen(t, f) == f = None \/ t > f

\* a busy window without the guard interval
FinishTime_no_guard(t, sound) == t + sound

\* _play_sound: self._finish_time = time.time() + sound.duration + 0.1
FinishTime(t, sound) == t + sound + Guard

\* a backend call that ignores the device carried by the request
BackendDevice_ignores_request(library, device, mixer) ==
    IF library = "pygame" THEN mixer ELSE EmptyText

\* _play_sound: the device a backend call plays on.  pygame plays on the
\* device its mixer is open on; epsound on the device carried by the
\* request, or on the default device when that is the empty string.
BackendDevice(library, device, mixer) ==
    IF library = "pygame" THEN mixer
    ELSE IF device # EmptyText THEN device ELSE EmptyText

\* pygame.mixer.init(devicename=...): the mixer is already initialised by
\* pygame.init() and pygame.mixer.init() in ThreadForPlayer.__init__, and
\* initialising an initialised mixer changes nothing.
mixer_init(current, devicename) == current

\* MainWindow._get_device
get_device == IF list_visible THEN audio_devices[list_index]
              ELSE IF line_visible THEN line_text
              ELSE EmptyText

currentLibrary == AUDIO_LIBRARIES[library_index + 1]

\* run, line 91: test the queue and the busy-until time
WorkerCheck ==
    /\ wpc = "check"
    /\ IF ~empty(queue) /\ GateOpen(now, finish_time)
       THEN wpc' = "get" /\ wake' = wake
       ELSE wpc' = "sleep" /\ wake' = now + SleepMs
    /\ UNCHANGED <<finish_time, wav_player_device, cur, sched_vars, timer_vars, select_vars, mixer_device, events,
                   widgets_enabled, now, issued, sound_names>>

\* run, line 94: time.sleep(0.1) returns
WorkerWake ==
    /\ wpc = "sleep"
    /\ now >= wake
    /\ wpc' = "check"
    /\ wake' = None
    /\ UNCHANGED <<finish_time, wav_player_device, cur, sched_vars, timer_vars, select_vars, mixer_device, events,
                   widgets_enabled, now, issued, sound_names>>

\* _play_sound, line 48: the blocking self._queue.get()
WorkerGet ==
    /\ wpc = "get"
    /\ ~empty(queue)
    /\ cur' = get_item(queue)
    /\ queue' = get_rest(queue)
    /\ wpc' = "backend"
    /\ UNCHANGED <<finish_time, wav_player_device, wake, index,
                   timer_vars, select_vars, mixer_device,
                   events, widgets_enabled, now, issued, sound_names>>

\* _play_sound, lines 49-58: the call into the audio backend returns.
\* History: the tuple remembers the device played on and the device that
\* was selected in the window when the call was made.
WorkerBackend ==
    /\ wpc = "backend"
    /\ wav_player_device' = IF cur.library = "pygame" THEN wav_player_device
                            ELSE BackendDevice(cur.library, cur.device, mixer_device)
    /\ cur' = [cur EXCEPT !.used = BackendDevice(cur.library, cur.device, mixer_device),
                          !.selected = get_device]
    /\ wpc' = "finish"
    /\ UNCHANGED <<finish_time, wake, sched_vars, timer_vars,
                   select_vars, mixer_device, events, widgets_enabled,
                   now, issued, sound_names>>

\* _play_sound, lines 49-58: the call into the audio backend raises; nothing
\* in _play_sound or run catches it, so run ends
WorkerBackendFails ==
    /\ wpc = "backend"
    /\ wav_player_device' = IF cur.library = "pygame" THEN wav_player_device
                            ELSE BackendDevice(cur.library, cur.device, mixer_device)
    /\ wpc' = "crashed"
    /\ UNCHANGED <<finish_time, cur, wake, sched_vars,
                   timer_vars, select_vars, mixer_device, events, widgets_enabled, now, issued, sound_names>>

\* _play_sound, line 59
WorkerFinishTime ==
    /\ wpc = "finish"
    /\ finish_time' = FinishTime(now, cur.sound)
    /\ wpc' = "emit"
    /\ UNCHANGED <<wav_player_device, cur, wake, sched_vars,
                   timer_vars, select_vars, mixer_device, events, widgets_enabled, now, issued, sound_names>>

\* a _play_sound that returns without notifying
WorkerEmit_silent ==
    /\ wpc = "emit"
    /\ cur' = NoRequest
    /\ wpc' = "check"
    /\ UNCHANGED <<finish_time, wav_player_device, wake, sched_vars, timer_vars,
                   select_vars, mixer_device, events, widgets_enabled, now,
                   issued, sound_names>>

\* _play_sound, line 60: sound_played is connected queued to the window;
\* _play_sound returns and its local tuple is gone
WorkerEmit ==
    /\ wpc = "emit"
    /\ events' = Append(events, [kind |-> "info", name |-> cur.name, library |-> "",
                                 device |-> EmptyText, k |-> None])
    /\ cur' = NoRequest
    /\ wpc' = "check"
    /\ UNCHANGED <<finish_time, wav_player_device, wake, sched_vars, timer_vars, select_vars, mixer_device,
                   widgets_enabled, now, issued, sound_names>>

WorkerNext ==
    \/ WorkerCheck
    \/ WorkerWake
    \/ WorkerGet
    \/ WorkerBackend
    \/ WorkerBackendFails
    \/ WorkerFinishTime
    \/ WorkerEmit

\* ----------------------------------------------------------- MainWindow

Request(kind, name, lib, dev, k) ==
    [kind |-> kind, name |-> name, library |-> lib, device |-> dev, k |-> k]

\* requests emitted by the window and not yet taken by the worker
Pending == Cardinality({i \in 1..Len(events) : events[i].kind # "info"}) + Len(queue)

\* show_audio_devices
ShowList(i) == AUDIO_LIBRARIES[i + 1] = "pygame"
ShowLine(i) == AUDIO_LIBRARIES[i + 1] = "epsound" /\ linux

\* play_sound_by_name (window): a sound button is clicked; the signal
\* certain_sound_required is connected queued
ClickSound(name) ==
    /\ widgets_enabled
    /\ Pending < MaxPending
    /\ events' = Append(events, Request("by_name", name, currentLibrary, get_device, None))
    /\ UNCHANGED <<worker_vars, sched_vars, timer_vars, select_vars, mixer_device,
                   widgets_enabled, now, issued, sound_names>>

\* a timer that fires once and disarms itself
TimerTimeout_single_shot ==
    /\ timer_active
    /\ now >= timer_due
    /\ Pending < MaxPending
    /\ events' = Append(events, Request("next", 0, currentLibrary, get_device, issued))
    /\ issued' = IF Len(sound_names) = 0 THEN issued
               ELSE (issued + 1) % Len(sound_names)
    /\ timer_active' = FALSE
    /\ timer_due' = None
    /\ UNCHANGED <<worker_vars, sched_vars, timer_interval,
                   select_vars, mixer_device, widgets_enabled, now, sound_names>>

\* send_signal_to_play_next_sound: the timer's timeout; the signal
\* sounds_required is connected queued
TimerTimeout ==
    /\ timer_active
    /\ now >= timer_due
    /\ Pending < MaxPending
    /\ events' = Append(events, Request("next", 0, currentLibrary, get_device, issued))
    /\ issued' = IF Len(sound_names) = 0 THEN issued
               ELSE (issued + 1) % Len(sound_names)
    /\ timer_due' = now + timer_interval
    /\ UNCHANGED <<worker_vars, sched_vars, timer_active, timer_interval,
                   select_vars, mixer_device, widgets_enabled, now, sound_names>>

\* the library combo box changes: show_audio_devices
SelectLibrary(i) ==
    /\ widgets_enabled
    /\ i # library_index
    /\ library_index' = i
    /\ list_visible' = ShowList(i)
    /\ line_visible' = ShowLine(i)
    /\ UNCHANGED <<worker_vars, sched_vars, timer_vars, list_index, line_text,
                   mixer_device, events, widgets_enabled, now, issued, sound_names>>

\* the device combo box changes: set_audio_device
SelectDevice(i) ==
    /\ widgets_enabled
    /\ list_visible
    /\ i # list_index
    /\ list_index' = i
    /\ mixer_device' = mixer_init(mixer_device, audio_devices[i])
    /\ UNCHANGED <<worker_vars, sched_vars, timer_vars, library_index, line_text,
                   list_visible, line_visible, events, widgets_enabled, now, issued, sound_names>>

\* the device line edit is edited
EditDevice(t) ==
    /\ widgets_enabled
    /\ line_visible
    /\ t # line_text
    /\ line_text' = t
    /\ UNCHANGED <<worker_vars, sched_vars, timer_vars, library_index, list_index,
                   list_visible, line_visible, mixer_device, events,
                   widgets_enabled, now, issued, sound_names>>

\* a start that arms the timer and leaves the widgets enabled
start_keeps_widgets(text) ==
    /\ widgets_enabled
    /\ IF IntRaises(text)
       THEN UNCHANGED <<timer_vars, widgets_enabled>>
       ELSE /\ widgets_enabled' = TRUE
            /\ timer_interval' = int(text)
            /\ timer_active' = TRUE
            /\ timer_due' = now + int(text)
    /\ UNCHANGED <<worker_vars, sched_vars, select_vars, mixer_device, events,
                   now, issued, sound_names>>

\* start: text is the content of line_edit_delay_time; when int(text) raises,
\* a message is appended to the text log and nothing else happens
start(text) ==
    /\ widgets_enabled
    /\ IF IntRaises(text)
       THEN UNCHANGED <<timer_vars, widgets_enabled>>
       ELSE /\ widgets_enabled' = FALSE
            /\ timer_interval' = int(text)
            /\ timer_active' = TRUE
            /\ timer_due' = now + int(text)
    /\ UNCHANGED <<worker_vars, sched_vars, select_vars, mixer_device, events, now, issued, sound_names>>

\* a clear that also ends the busy window
stop_current_queue_resets_finish ==
    /\ queue' = <<>>
    /\ finish_time' = None
    /\ UNCHANGED index

\* a clear that takes the cursor back by the number of requests it removes
stop_current_queue_rewinds ==
    /\ queue' = <<>>
    /\ index' = IF index >= Len(queue) THEN index - Len(queue) ELSE 0
    /\ UNCHANGED finish_time

\* stop_current_queue: self._queue.queue.clear()
stop_current_queue ==
    /\ queue' = <<>>
    /\ UNCHANGED <<finish_time, index>>

\* stop: the timer is stopped, sounds_not_required calls stop_current_queue
\* directly, the widgets are enabled
stop ==
    /\ timer_active' = FALSE
    /\ timer_due' = None
    /\ stop_current_queue
    /\ widgets_enabled' = TRUE
    /\ UNCHANGED <<wav_player_device, wpc, cur, wake, timer_interval,
                   select_vars, mixer_device, events, now, issued, sound_names>>

\* a play_next_sound that does not advance the cursor
play_next_sound_no_advance(ev) ==
    LET i == IF index >= Len(sound_names) THEN 0 ELSE index
    IN /\ queue' = put(queue, [sound |-> sounds[i + 1], name |-> sound_names[i + 1],
                               library |-> ev.library, device |-> ev.device,
                               k |-> ev.k,
                               used |-> EmptyText, selected |-> EmptyText])
       /\ index' = i
       /\ UNCHANGED finish_time

\* a play_next_sound that moves the cursor two places
play_next_sound_double_step(ev) ==
    LET i == IF index >= Len(sound_names) THEN 0 ELSE index
    IN /\ queue' = put(queue, [sound |-> sounds[i + 1], name |-> sound_names[i + 1],
                               library |-> ev.library, device |-> ev.device,
                               k |-> ev.k,
                               used |-> EmptyText, selected |-> EmptyText])
       /\ index' = i + 2
       /\ UNCHANGED finish_time

\* ThreadForPlayer.play_next_sound, run by the main thread's event loop.
\* When the catalog is empty, self._sounds[self._index] of line 72 raises
\* IndexError after line 71 has set the cursor, and the slot is left.
play_next_sound(ev) ==
    LET i == IF index >= Len(sound_names) THEN 0 ELSE index
    IN IF i < Len(sound_names)
       THEN /\ queue' = put(queue, [sound |-> sounds[i + 1], name |-> sound_names[i + 1],
                                    library |-> ev.library, device |-> ev.device,
                                    k |-> ev.k,
                                    used |-> EmptyText, selected |-> EmptyText])
            /\ index' = i + 1
            /\ UNCHANGED <<finish_time>>
       ELSE /\ index' = i
            /\ UNCHANGED <<queue, finish_time>>

\* a lookup that falls back to the first clip
find_name_or_first(name) ==
    LET found == {i \in 1..Len(sound_names) : sound_names[i] = name}
    IN IF found = {} THEN 1 ELSE CHOOSE x \in found : \A y \in found : x <= y

\* play_sound_by_name, the for loop: the first position of the catalog that
\* holds the name, 0 when the loop ends without a match
find_name(name) ==
    LET found == {i \in 1..Len(sound_names) : sound_names[i] = name}
    IN IF found = {} THEN 0 ELSE CHOOSE x \in found : \A y \in found : x <= y

\* ThreadForPlayer.play_sound_by_name, run by the main thread's event loop
play_sound_by_name(ev) ==
    LET i == find_name(ev.name)
    IN /\ IF i # 0
          THEN queue' = put(queue, [sound |-> sounds[i], name |-> ev.name,
                                    library |-> ev.library, device |-> ev.device,
                                    k |-> None,
                                    used |-> EmptyText, selected |-> EmptyText])
          ELSE UNCHANGED queue
       /\ UNCHANGED <<finish_time, index>>

\* MainWindow.print_info_about_sound: a line is appended to the text log
print_info_about_sound(ev) ==
    UNCHANGED <<finish_time, sched_vars>>

\* the main thread's event loop delivers the oldest queued signal
Deliver ==
    /\ events # <<>>
    /\ events' = Tail(events)
    /\ LET ev == Head(events)
       IN CASE ev.kind = "next" -> play_next_sound(ev)
            [] ev.kind = "by_name" -> play_sound_by_name(ev)
            [] ev.kind = "info" -> print_info_about_sound(ev)
    /\ UNCHANGED <<wav_player_device, wpc, cur, wake, timer_vars, select_vars,
                   mixer_device, widgets_enabled, now, issued, sound_names>>

\* time passes
Tick ==
    /\ now + TimeStep <= MaxTime
    /\ now' = now + TimeStep
    /\ UNCHANGED <<worker_vars, sched_vars, timer_vars, select_vars, mixer_device,
                   events, widgets_enabled, issued, sound_names>>

\* the sound buttons clicked in a run: the first clip's, the last clip's and
\* the late file's
ClickedButtons == {sound_names[1], sound_names[Len(sound_names)], LateFile}

\* the window's controls that issue, start and stop requests
GuiSchedule ==
    \/ \E name \in ClickedButtons : ClickSound(name)
    \/ TimerTimeout
    \/ \E text \in DelayTexts : start(text)
    \/ stop
    \/ Deliver

\* the window's controls that select the audio library and device
GuiSelect ==
    \/ \E i \in 0..(Len(AUDIO_LIBRARIES) - 1) : SelectLibrary(i)
    \/ \E i \in 1..NumDevices : SelectDevice(i)
    \/ \E t \in DeviceTexts : EditDevice(t)

\* The player under the periodic timer and the sound buttons, the library
\* and device left as the window shows them at startup.
NextSchedule == WorkerNext \/ GuiSchedule \/ Tick

SpecSchedule == Init /\ [][NextSchedule]_vars

\* The player under the first clip's sound button and the library and device
\* selectors, the periodic timer left unarmed.
NextDevice ==
    \/ WorkerNext
    \/ Pending < MaxPendingSelect /\ ClickSound(sound_names[1])
    \/ GuiSelect
    \/ Deliver
    \/ Tick

SpecDevice == Init /\ [][NextDevice]_vars

\* The player under the periodic timer and Stop.
NextTimer ==
    \/ WorkerNext
    \/ TimerTimeout
    \/ \E text \in DelayTexts : start(text)
    \/ stop
    \/ Deliver
    \/ Tick

SpecTimer == Init /\ [][NextTimer]_vars

\* Startup over an audio directory that holds the clips or is empty:
\* ThreadForPlayer.__init__ loads whatever os.listdir returns, and __main__
\* builds the window and starts the thread.
InitStartup ==
    /\ finish_time = None
    /\ index = 0
    /\ queue = <<>>
    /\ wav_player_device = EmptyText
    /\ mixer_device = EmptyText
    /\ wpc = "check"
    /\ cur = NoRequest
    /\ wake = None
    /\ events = <<>>
    /\ timer_active = FALSE
    /\ timer_interval = InitialInterval
    /\ timer_due = None
    /\ widgets_enabled = TRUE
    /\ library_index = 0
    /\ list_index = 1
    /\ line_text = EmptyText
    /\ list_visible = FALSE
    /\ line_visible = linux
    /\ now = 0
    /\ issued = 0
    /\ sound_names \in {sorted({}), sorted(DirFiles)}

SpecStartup == InitStartup /\ [][NextTimer]_vars

\* The window under every one of its controls, one request pending at a
\* time.  The worker thread reads and writes no widget and not the timer; it
\* is left out, so requests leave the queue by Stop only.
NextControls ==
    \/ Pending < MaxPendingSelect /\ ClickSound(sound_names[1])
    \/ Pending < MaxPendingSelect /\ TimerTimeout
    \/ \E text \in DelayTexts : start(text)
    \/ stop
    \/ GuiSelect
    \/ Deliver
    \/ Tick

SpecControls == Init /\ [][NextControls]_vars

\* A time that lies one polling period earlier; instants already in the past
\* stay in the past.
Earlier(t) == IF t = None THEN None
              ELSE IF t >= TimeStep THEN t - TimeStep ELSE 0

\* time passes without end: once the clock has reached the horizon, the origin
\* of time moves forward instead, which preserves every comparison the
\* program makes between time.time() and a stored instant
TimePasses ==
    /\ IF now + TimeStep <= MaxTime
       THEN /\ now' = now + TimeStep
            /\ UNCHANGED <<finish_time, wake, timer_due>>
       ELSE /\ now' = now
            /\ finish_time' = Earlier(finish_time)
            /\ wake' = Earlier(wake)
            /\ timer_due' = Earlier(timer_due)
    /\ UNCHANGED <<wav_player_device, wpc, cur, sched_vars, timer_active,
                   timer_interval, select_vars, mixer_device, events,
                   widgets_enabled, issued, sound_names>>

\* the worker thread when no backend call raises
WorkerLive ==
    \/ WorkerCheck
    \/ WorkerWake
    \/ WorkerGet
    \/ WorkerBackend
    \/ WorkerFinishTime
    \/ WorkerEmit

\* The player under the sound buttons and Stop, with a backend that does not
\* fail, a worker thread that keeps being scheduled and a clock that keeps
\* advancing.
NextLive ==
    \/ WorkerLive
    \/ \E name \in ClickedButtons : ClickSound(name)
    \/ stop
    \/ Deliver
    \/ TimePasses

SpecLive ==
    /\ Init
    /\ [][NextLive]_vars
    /\ WF_vars(WorkerLive)
    /\ WF_vars(TimePasses)

\* The whole program.
Next == WorkerNext \/ GuiSchedule \/ GuiSelect \/ Tick

Spec == Init /\ [][Next]_vars

\* ---------------------------------------------------------------- claims

Busy == finish_time # None /\ now <= finish_time
InQueue == {queue[i] : i \in 1..Len(queue)}
RequestEvents == {i \in 1..Len(events) : events[i].kind # "info"}
Called == wpc \in {"finish", "emit"}

\* C1: the worker never starts a playback while the current time is less than
\* or equal to the busy-until time: whenever it is about to take a request
\* from the queue or to hand one to the backend, _finish_time is None or
\* lies strictly in the past.
C1_BusyGate == wpc \in {"get", "backend"} => (finish_time = None \/ now > finish_time)

\* C1 witness: a request is in the queue inside the busy window and the
\* worker, having polled at this instant, sleeps instead of playing it.
C1_Witness ==
    /\ Busy
    /\ queue # <<>>
    /\ wpc = "sleep"
    /\ wake = now + SleepMs

\* C2: requests leave the queue in the order they entered it, whatever their
\* kind: every step either leaves the queue alone, appends one request at its
\* tail, hands its oldest request to the worker, or is a clear made by the
\* window; and the request the worker took is the one it passes to the backend.
C2_FIFO ==
    [][ /\ \/ queue' = queue
           \/ /\ Len(queue') = Len(queue) + 1
              /\ SubSeq(queue', 1, Len(queue)) = queue
           \/ /\ queue # <<>>
              /\ queue' = Tail(queue)
              /\ cur' = Head(queue)
              /\ wpc' = "backend"
           \/ /\ queue' = <<>>
              /\ cur' = cur
              /\ wpc' = wpc
        /\ (wpc = "backend" /\ wpc' = "finish") => cur'.name = cur.name
      ]_vars

\* C2 witness: the worker has taken a next-in-sequence request while a named
\* request that arrived later waits behind it.
C2_Witness ==
    /\ wpc = "backend"
    /\ cur.k # None
    /\ queue # <<>>
    /\ queue[1].k = None

\* C3: the k-th next-in-sequence request issued by the timer enqueues clip
\* k mod n of the sorted catalog (k is carried modulo n), whatever named and
\* unknown-name requests were delivered in between.
C3_CyclicSequence ==
    \A r \in InQueue \cup {cur} :
        r.k # None => /\ r.name = sound_names[(r.k % Len(sound_names)) + 1]
                      /\ r.sound = sounds[(r.k % Len(sound_names)) + 1]

\* C3 witness: the last clip of the catalog is being played, and behind it
\* wait a named request and the next-in-sequence request that wrapped to the
\* first clip.
C3_Witness ==
    /\ cur.k = Len(sound_names) - 1
    /\ Len(queue) = 2
    /\ queue[1].k = None
    /\ queue[2].k = 0
    /\ queue[2].name = sound_names[1]

\* C4 (as stated): while the timer is disarmed no request of the timer is in
\* the pending queue.
C4_NoStaleAfterStop == ~timer_active => \A r \in InQueue : r.k = None

\* C5 (as stated): a backend call that fails does not end the worker loop.
C5_FailureContained == wpc # "crashed"

\* C6: stop_current_queue empties the queue and leaves the busy-until time,
\* the worker's position and the request it holds unchanged; and inside the
\* busy window no step starts a playback.
C6_ClearKeepsBusy ==
    [][ /\ stop => /\ queue' = <<>>
                   /\ finish_time' = finish_time
                   /\ wpc' = wpc
                   /\ cur' = cur
                   /\ wav_player_device' = wav_player_device
        /\ Busy => (wpc' \in {"get", "backend"} => wpc' = wpc)
      ]_vars

\* C6 witness: the first clip was played at time 0 and its busy window still
\* runs; the second timer request was enqueued (the cursor is at 2) and is
\* gone, removed by the clear; a named request that arrived after the clear
\* waits in the queue.
C6_Witness ==
    /\ index = 2
    /\ finish_time = FinishTime(0, sounds[1])
    /\ Busy
    /\ cur = NoRequest
    /\ Len(queue) = 1
    /\ queue[1].k = None
    /\ RequestEvents = {}

\* C7: delivering a named request whose name is not in the catalog changes
\* neither the queue, the cursor, the busy-until time nor the worker, and
\* posts no notification.
C7_UnknownDropped ==
    [][ ( /\ events # <<>>
          /\ Head(events).kind = "by_name"
          /\ \A i \in 1..Len(sound_names) : sound_names[i] # Head(events).name
          /\ events' = Tail(events) )
        => /\ queue' = queue
           /\ index' = index
           /\ finish_time' = finish_time
           /\ wpc' = wpc
           /\ cur' = cur
      ]_vars

\* C7 witness: a request for a name that is not in the catalog is the next
\* signal to be delivered, while another request waits in the busy window.
C7_Witness ==
    /\ events # <<>>
    /\ Head(events).kind = "by_name"
    /\ Head(events).name = LateFile
    /\ queue # <<>>
    /\ Busy

\* C8 (as stated): the timer is never armed with an interval that is not
\* positive.
C8_InvalidIntervalRejected == timer_active => timer_interval > 0

C10_SingleOwner ==
    [][ (index' # index \/ queue' # queue \/ finish_time' # finish_time)
        => WorkerNext ]_vars

\* C11 (as stated): whenever the worker is at the blocking self._queue.get()
\* of _play_sound the queue is not empty, so the call returns at once.
C11_GetNeverBlocks == wpc = "get" => ~empty(queue)

\* C12: with a backend that does not fail, a worker that is scheduled fairly
\* and a clock that advances, the oldest request in the queue is eventually
\* taken by the worker unless a clear removes it first (so that, the queue
\* being first-in first-out, every request's turn comes), a request the worker
\* took is eventually played and notified, and taking a request removes it
\* from the queue, so that it cannot be taken again.
C12_ConsumedOnce ==
    /\ (queue # <<>> /\ wpc # "backend") ~> (wpc = "backend" \/ queue = <<>>)
    /\ (wpc = "backend") ~> (wpc = "check")
    /\ [][ (wpc = "get" /\ wpc' = "backend") => queue = <<cur'>> \o queue' ]_vars

\* C12 witness: a named request that had to wait for the busy window of an
\* earlier playback to pass has been taken by the worker, and the queue is
\* empty again.
C12_Witness ==
    /\ wpc = "backend"
    /\ cur.k = None
    /\ cur.name = sound_names[Len(sound_names)]
    /\ finish_time # None
    /\ now > finish_time
    /\ queue = <<>>

\* C13 (as stated): when the audio directory holds no clip the program does
\* not get past initialization: the worker thread takes no step and no
\* next-in-sequence request is processed.
C13_EmptyCatalogFatal ==
    [][ sound_names = <<>> =>
          /\ wpc' = wpc
          /\ ~ ( /\ events # <<>>
                 /\ Head(events).kind = "next"
                 /\ events' = Tail(events) )
      ]_vars

NextCount(evs) == Cardinality({i \in 1..Len(evs) : evs[i].kind = "next"})

\* C14: a next-in-sequence request is emitted only by a timeout of the armed
\* timer, when the interval set by start has elapsed; the timeout emits
\* exactly one request, carrying the library and device selected, stays armed
\* and is due again one interval later, whether or not a playback is going on;
\* the enqueue itself happens when the request is delivered, one clip per
\* request; and stop leaves the timer disarmed with no timeout due.
C14_PeriodicTrigger ==
    [][ /\ NextCount(events') > NextCount(events) =>
             /\ timer_active
             /\ now >= timer_due
             /\ events' = Append(events, Request("next", 0, currentLibrary,
                                                 get_device, issued))
             /\ timer_active'
             /\ timer_interval' = timer_interval
             /\ timer_due' = now + timer_interval
             /\ queue' = queue
        /\ ( /\ events # <<>>
             /\ Head(events).kind = "next"
             /\ events' = Tail(events) )
           => /\ Len(queue') = Len(queue) + 1
              /\ queue'[Len(queue')].k = Head(events).k
        /\ stop => (~timer_active' /\ timer_due' = None /\ events' = events)
        /\ ~timer_active => timer_due = None
      ]_vars

\* C14 witness: the timer, armed with a positive interval, has just fired for
\* the second time, during the busy window of the playback its first request
\* started.
C14_Witness ==
    /\ timer_active
    /\ timer_interval > 0
    /\ Busy
    /\ now > 0
    /\ timer_due = now + timer_interval
    /\ events # <<>>
    /\ events[Len(events)].kind = "next"
    /\ events[Len(events)].k = 1

\* C15: the backend is called for a clip only when the busy-until time of the
\* previous playback lies strictly in the past, and right after the call the
\* busy-until time is set to the current time plus the duration of the clip
\* just started plus the guard interval; hence a playback starts later than
\* the previous start plus the previous clip's duration plus the guard, and
\* the busy-until time strictly increases from one playback to the next.
C15_NoOverlap ==
    [][ /\ (wpc = "backend" /\ wpc' # wpc) =>
               (finish_time = None \/ now > finish_time)
        /\ finish_time' # finish_time =>
               /\ wpc = "finish"
               /\ finish_time' = now + duration(cur.name) + Guard
               /\ finish_time' > finish_time
               /\ finish_time # None =>
                      finish_time' > finish_time + duration(cur.name) + Guard
      ]_vars

\* C15 witness: the second clip of the catalog has been started three polling
\* periods after the first, whose busy window (duration plus guard) ended in
\* between, and the busy-until time has been set from the second clip; the
\* notification of the first playback is still to be delivered.
C15_Witness ==
    /\ wpc = "emit"
    /\ cur.k = 1
    /\ now = 3 * TimeStep
    /\ now > FinishTime(0, sounds[1])
    /\ finish_time = FinishTime(now, sounds[2])
    /\ events # <<>>
    /\ Head(events).kind = "info"
    /\ Head(events).name = sound_names[1]

\* C16 (as stated): a poll made by the worker when the queue is not empty and
\* the current time has reached the busy-until time, the instant of equality
\* included, goes on to take the oldest request.
C16_GateAtBoundary ==
    [][ ( /\ wpc = "check"
          /\ wpc' # wpc
          /\ ~empty(queue)
          /\ finish_time # None
          /\ now >= finish_time )
        => wpc' = "get"
      ]_vars

InfoCount(evs) == Cardinality({i \in 1..Len(evs) : evs[i].kind = "info"})

\* C17: a sound_played notification is posted only by the worker at the end
\* of _play_sound, one per playback, as the newest pending signal and with the
\* name of the clip taken from the queue and handed to the backend; the worker
\* gets there only through the backend call and the update of the busy-until
\* time, in that order, and every playback whose backend call returned goes
\* on to post its notification.
C17_StartedNotification ==
    [][ /\ InfoCount(events') > InfoCount(events) =>
             /\ wpc = "emit"
             /\ events' = Append(events, Request("info", cur.name, "", EmptyText, None))
        /\ (wpc = "emit" /\ wpc' # wpc) =>
             /\ wpc' = "check"
             /\ events' = Append(events, Request("info", cur.name, "", EmptyText, None))
        /\ (wpc' = "emit" /\ wpc' # wpc) =>
             /\ wpc = "finish"
             /\ cur' = cur
             /\ finish_time' = FinishTime(now, cur.sound)
        /\ (wpc' = "finish" /\ wpc' # wpc) =>
             /\ wpc = "backend"
             /\ cur'.name = cur.name
        /\ (wpc = "finish" /\ wpc' # wpc) => wpc' = "emit"
      ]_vars

\* C17 witness: the first and the second clip of the catalog were played one
\* after the other, and their two notifications wait in that order to be
\* delivered to the window.
C17_Witness ==
    /\ wpc = "check"
    /\ cur = NoRequest
    /\ Len(events) >= 2
    /\ events[1] = Request("info", sound_names[1], "", EmptyText, None)
    /\ events[2] = Request("info", sound_names[2], "", EmptyText, None)

\* C18 (as stated): the clips played from next-in-sequence requests follow
\* contiguous cyclic catalog order, also across a clear: while the worker holds
\* a next-in-sequence request and no other one is queued or on its way, the
\* cursor, from which the next such clip will come, points at the cyclic
\* successor of the clip the worker holds.
C18_PlayedContiguous ==
    ( /\ cur.k # None
      /\ \A r \in InQueue : r.k = None
      /\ NextCount(events) = 0 )
    => index % Len(sound_names) = (cur.k + 1) % Len(sound_names)

\* C18 (amended): a clear leaves the cursor where it is, and every
\* next-in-sequence request delivered enqueues the clip under the cursor
\* (wrapped to the first clip at the end of the catalog) and moves the cursor
\* past it: the clips enqueued follow contiguous cyclic order, and the clips a
\* clear removes are skipped, not replayed.
C18_ClearKeepsCursor ==
    [][ /\ stop => index' = index
        /\ ( /\ events # <<>>
             /\ Head(events).kind = "next"
             /\ events' = Tail(events) )
           => LET i == IF index >= Len(sound_names) THEN 0 ELSE index
              IN /\ Len(queue') = Len(queue) + 1
                 /\ SubSeq(queue', 1, Len(queue)) = queue
                 /\ queue'[Len(queue')].name = sound_names[i + 1]
                 /\ index' = i + 1
      ]_vars

\* C18 witness: the worker holds the first next-in-sequence clip; the request
\* for the second one was enqueued and removed by a clear; the request that
\* came after the clear waits in the queue with the clip that follows the
\* removed one, not the one that follows the clip being played.
C18_Witness ==
    /\ cur.k = 0
    /\ wpc \in {"backend", "finish", "emit"}
    /\ Len(queue) = 1
    /\ queue[1].k = 2 % Len(sound_names)
    /\ queue[1].name = sound_names[(2 % Len(sound_names)) + 1]
    /\ index = (2 % Len(sound_names)) + 1

\* C19: with a catalog of n >= 1 clips the cursor always lies in 0..n; it
\* changes only when a next-in-sequence request is delivered; the position
\* play_next_sound reads the catalog at is in 0..n-1, and the cursor it leaves
\* behind is that position plus one, in 1..n.
C19_CursorBounds ==
    [][ /\ index \in 0..Len(sound_names)
        /\ index' \in 0..Len(sound_names)
        /\ index' # index =>
             /\ events # <<>>
             /\ Head(events).kind = "next"
             /\ events' = Tail(events)
        /\ ( /\ events # <<>>
             /\ Head(events).kind = "next"
             /\ events' = Tail(events) )
           => LET i == IF index >= Len(sound_names) THEN 0 ELSE index
              IN /\ i \in 0..(Len(sound_names) - 1)
                 /\ index' = i + 1
                 /\ index' \in 1..Len(sound_names)
      ]_vars

\* C19 witness: the cursor stands at n, one past the last clip, and the next
\* signal to be delivered is a next-in-sequence request, which will wrap it.
C19_Witness ==
    /\ Len(sound_names) >= 1
    /\ index = Len(sound_names)
    /\ events # <<>>
    /\ Head(events).kind = "next"

NamedCount(evs) == Cardinality({i \in 1..Len(evs) : evs[i].kind = "by_name"})

\* C20: whenever the timer is armed the widgets switched by _enable_widgets
\* (sound buttons, library and device selector, interval field, Start) are
\* disabled, so that while it is armed no named request is issued, library and
\* device stay as selected, and the interval and the due time change by a
\* timeout only; stop can always be taken, and it leaves the timer disarmed,
\* the widgets enabled and the queue empty, whether or not the timer was armed.
C20_ArmedLocksControls ==
    [][ /\ timer_active => ~widgets_enabled
        /\ timer_active' => ~widgets_enabled'
        /\ timer_active =>
             /\ NamedCount(events') <= NamedCount(events)
             /\ select_vars' = select_vars
             /\ mixer_device' = mixer_device
             /\ timer_interval' = timer_interval
             /\ timer_due' # timer_due =>
                    (NextCount(events') > NextCount(events) \/ ~timer_active')
        /\ ENABLED stop
        /\ stop => (~timer_active' /\ widgets_enabled' /\ queue' = <<>>)
      ]_vars

\* C20 witness: pygame and the second device were selected, then the timer
\* was armed; it has fired, and the widgets are disabled.
C20_Witness ==
    /\ timer_active
    /\ ~widgets_enabled
    /\ library_index = 1
    /\ list_index = 2
    /\ NextCount(events) >= 1
====
